---- MODULE Spec2Model ----
(***************************************************************************)
(* Boardprep: a study-tracking dashboard.  The model covers the goal and   *)
(* session store behind services/api (local mock store or remote document *)
(* store), the Planner and Dashboard handlers that drive it, and the       *)
(* aggregations of Dashboard.fetchDashboardData and Analytics.fetchData.   *)
(*                                                                         *)
(* Representation.                                                         *)
(*  - An instant (Date.now(), new Date()) is an integer number of hours    *)
(*    since the epoch.  An ISO calendar date "YYYY-MM-DD" is the integer   *)
(*    number of its UTC day; the string comparisons === and < of the code  *)
(*    on such fixed-width strings are = and < on the day numbers.          *)
(*  - completedAt is <<>> when null or absent and <<d>> when it is date d. *)
(*  - targetHours is kept as targetMinutes = targetHours * 60.             *)
(*  - durationMinutes is a fraction when the stopwatch wrote it; it is     *)
(*    kept in sixtieths of a minute, Minutes(m) being m whole minutes.     *)
(*  - actualHours and the hours of the charts have one decimal; they are   *)
(*    kept in tenths of an hour.                                           *)
(*  - Only one user is modelled; userId and createdAt are not kept.        *)
(***************************************************************************)
EXTENDS Integers, Sequences, FiniteSets, TLC

VARIABLES
    isFirebaseConfigured,  \* which persistence variant the api module selected
    currentUser,           \* TRUE when a user is signed in
    now,                   \* the clock, in hours since the epoch
    storedGoals,           \* goals_<uid> / users/<uid>/dailyGoals
    storedSessions,        \* sessions_<uid> / users/<uid>/studySessions
    storeExists,           \* localStorage has a goals_<uid> key
    nextDocId,             \* remote store: next auto-generated document id
    storedConfidence,      \* the confidence entries, one per date
    pendingToggles,        \* remote store: toggleGoal updates not yet applied
    view,                  \* App.view
    headerStats,           \* App.headerStats
    goals,                 \* Dashboard.goals (with actualHours, sorted)
    todayStats,            \* Dashboard.todayStats
    subjectDistribution,   \* Dashboard.subjectDistribution
    recentSessions,        \* Dashboard.recentSessions
    loading,               \* Dashboard.loading
    confidence,            \* Dashboard.confidence
    avgConfidence,         \* Dashboard.avgConfidence
    isEditingConfidence,   \* Dashboard.isEditingConfidence
    refreshes,             \* the fetchDashboardData calls in flight
    selectedGoal,          \* SessionTracker: selectedGoalId, subject, topic
    isRunning,             \* SessionTracker.isRunning
    seconds,               \* SessionTracker.seconds, the counter shown
    startTimeRef,          \* SessionTracker.startTimeRef.current
    stopTimers,            \* remote store: the stopTimer calls that await their save
    plannerGoals,          \* Planner.goals
    plannerFetch,          \* the Planner.fetchGoals call in flight
    ops,                   \* number of writes the user has made so far
    tz,                    \* the time zone of the browser
    analyticsFetch,        \* the Analytics.fetchData call in flight
    stats,                 \* Analytics.stats
    weeklyData,            \* Analytics.weeklyData
    heatmapData,           \* Analytics.heatmapData
    subjectData,           \* Analytics.subjectData
    dailyLog               \* Analytics.dailyLog

storeVars == <<storedGoals, storedSessions, storeExists, nextDocId, storedConfidence>>
dashVars == <<goals, todayStats, subjectDistribution, recentSessions, loading,
              confidence, avgConfidence, isEditingConfidence>>
analyticsVars == <<tz, analyticsFetch, stats, weeklyData, heatmapData, subjectData, dailyLog>>
timerVars == <<isRunning, seconds, startTimeRef, stopTimers>>
vars == <<isFirebaseConfigured, currentUser, now, storeVars, pendingToggles, view,
          headerStats, dashVars, refreshes, selectedGoal, timerVars, plannerGoals,
          plannerFetch, ops, analyticsVars>>

----------------------------------------------------------------------------
(* Bounds *)

MaxNow == 24          \* the clock stops here
ClockStep == 24       \* hours that pass in one Tick
MaxGoals == 4         \* stored goals
MaxSessions == 4      \* stored sessions

MaxDocs == 2          \* documents the remote store creates
MaxPending == 2       \* toggleGoal updates in flight
MaxRefreshes == 2     \* fetchDashboardData calls in flight
MaxOps == 3           \* writes the user makes: goals, sessions, confidence

HoursPerDay == 24
SecondsPerMinute == 60
MinutesPerHour == 60

\* durationMinutes is a real number of minutes (elapsedSeconds / 60); it is
\* kept multiplied by 60, as a whole number of seconds
Minutes(m) == m * SecondsPerMinute

----------------------------------------------------------------------------
(* Calendar *)

\* new Date(t).toISOString().split('T')[0]
UTCDate(t) == t \div HoursPerDay

Today == UTCDate(now)

Null == <<>>

\* The time zone of the browser: the standard offset from UTC in hours, and
\* the instants between which daylight saving time adds an hour to it.
offsetAt(t) == tz.offset + (IF tz.dstFrom <= t /\ t < tz.dstUntil THEN 1 ELSE 0)

\* LocalTime(t): the wall clock of the browser, in hours
LocalTime(t) == t + offsetAt(t)

\* UTC(wall): the instant of a wall clock time.  A time that occurs twice is
\* the earlier instant; a time that is skipped is read with the offset in
\* force before the transition.
ToUTC(wall) ==
    LET daylight == wall - (tz.offset + 1)
        standard == wall - tz.offset
    IN  IF tz.dstFrom <= daylight /\ daylight < tz.dstUntil THEN daylight ELSE standard

\* d = new Date(t); d.setDate(d.getDate() - i): the same wall clock time, i
\* local calendar days earlier
SetDateBack(t, i) == ToUTC(LocalTime(t) - i * HoursPerDay)

\* new Date("YYYY-MM-DD"): midnight UTC of that day
ParseDate(date) == date * HoursPerDay

\* the epoch fell on a Thursday
EpochWeekday == 4
DaysPerWeek == 7

\* new Date(t).getDay(): the day of the week of the local calendar day
getDay(t) == ((LocalTime(t) \div HoursPerDay) + EpochWeekday) % DaysPerWeek

----------------------------------------------------------------------------
(* Sequences *)

Range(s) == {s[i] : i \in 1..Len(s)}

\* Array.prototype.findIndex, 1-based; 0 when nothing matches
FindIndex(s, Test(_)) ==
    IF \E i \in 1..Len(s) : Test(s[i])
    THEN CHOOSE i \in 1..Len(s) : Test(s[i]) /\ \A j \in 1..(i - 1) : ~Test(s[j])
    ELSE 0

\* Array.prototype.sort with a comparator that orders by Before (stable):
\* element i lands after every element that goes before it and after every
\* earlier element that compares equal to it.
SortedPos(s, Before(_, _), i) ==
    1 + Cardinality({j \in 1..Len(s) : Before(s[j], s[i])})
      + Cardinality({j \in 1..(i - 1) : ~Before(s[j], s[i]) /\ ~Before(s[i], s[j])})

StableSort(s, Before(_, _)) ==
    LET pos == [i \in 1..Len(s) |-> SortedPos(s, Before, i)]
    IN  [k \in 1..Len(s) |-> s[CHOOSE i \in 1..Len(s) : pos[i] = k]]

RECURSIVE SumSeq(_)
SumSeq(s) == IF s = <<>> THEN 0 ELSE Head(s) + SumSeq(Tail(s))

\* { ...a, ...b } for records b whose fields all occur in a
Spread(a, b) == [f \in DOMAIN a |-> IF f \in DOMAIN b THEN b[f] ELSE a[f]]

----------------------------------------------------------------------------
(* types.ts *)

Subject == {"Maths", "Science", "Social Science", "English", "Hindi", "IT", "Other"}
Priority == {"High", "Medium", "Low"}

----------------------------------------------------------------------------
(* services/api: the seed of the demo store *)

initialGoals ==
    << [id |-> <<"g", 1>>, date |-> Today, title |-> "Science - Electricity Numericals",
        subject |-> "Science", targetMinutes |-> 120, completed |-> FALSE,
        priority |-> "High", completedAt |-> Null],
       [id |-> <<"g", 2>>, date |-> Today, title |-> "Maths - Quadratic Equations",
        subject |-> "Maths", targetMinutes |-> 90, completed |-> TRUE,
        priority |-> "Medium", completedAt |-> Null],
       [id |-> <<"g", 3>>, date |-> UTCDate(now - HoursPerDay),
        title |-> "SST - Nationalism in Europe",
        subject |-> "Social Science", targetMinutes |-> 60, completed |-> FALSE,
        priority |-> "High", completedAt |-> Null] >>

initialSessions ==
    << [id |-> <<"s", 1>>, date |-> Today, subject |-> "Maths",
        topic |-> "Quadratic Eq Ex 4.1", endTime |-> now, durationMinutes |-> Minutes(60)],
       [id |-> <<"s", 2>>, date |-> UTCDate(now - HoursPerDay), subject |-> "Science",
        topic |-> "Ohm Law", endTime |-> now - HoursPerDay, durationMinutes |-> Minutes(120)] >>

----------------------------------------------------------------------------
(* services/api: goals *)

\* a filter that keeps every completed goal of the past
shouldIncludeGoal_AnyCompleted(g, date) ==
    LET isToday == g.date = date
        isPastIncomplete == g.date < date /\ ~g.completed
        isPastCompletedToday == g.date < date /\ g.completed
    IN  isToday \/ isPastIncomplete \/ isPastCompletedToday

\* A stored goal written by the app has an ISO date, kept in the field date
\* as a day number.  A record of the store whose date is another string has
\* that string, as a sequence of characters, in the field dateText instead,
\* and a record without a date has neither field.

\* the UTF-16 code units of the characters that occur
CodeUnit(c) ==
    CASE c = "-" -> 45 [] c = "/" -> 47
      [] c = "0" -> 48 [] c = "1" -> 49 [] c = "2" -> 50 [] c = "3" -> 51 [] c = "4" -> 52
      [] c = "5" -> 53 [] c = "6" -> 54 [] c = "7" -> 55 [] c = "8" -> 56 [] c = "9" -> 57
      [] c = "m" -> 109 [] c = "o" -> 111 [] c = "r" -> 114 [] c = "t" -> 116
      [] c = "w" -> 119

\* a < b on two strings: the first code unit that differs decides, and a
\* proper prefix comes first
RECURSIVE StringBefore(_, _)
StringBefore(a, b) ==
    IF b = <<>> THEN FALSE
    ELSE IF a = <<>> THEN TRUE
    ELSE IF Head(a) # Head(b) THEN CodeUnit(Head(a)) < CodeUnit(Head(b))
    ELSE StringBefore(Tail(a), Tail(b))

TwoDigits(n) ==
    LET digits == <<"0", "1", "2", "3", "4", "5", "6", "7", "8", "9">>
    IN  <<digits[(n \div 10) + 1], digits[(n % 10) + 1]>>

\* the text YYYY-MM-DD of a day of December 1969 or January 1970
ToISODate(day) ==
    IF day < 0 THEN <<"1", "9", "6", "9", "-", "1", "2", "-">> \o TwoDigits(32 + day)
    ELSE <<"1", "9", "7", "0", "-", "0", "1", "-">> \o TwoDigits(day + 1)

\* g.date === date, for an ISO date
DateIs(g, date) == "date" \in DOMAIN g /\ g.date = date

\* g.date < date, for an ISO date: two strings are compared as strings, and
\* undefined is less than nothing
DateBefore(g, date) ==
    IF "date" \in DOMAIN g THEN g.date < date
    ELSE IF "dateText" \in DOMAIN g THEN StringBefore(g.dateText, ToISODate(date))
    ELSE FALSE

shouldIncludeGoal(g, date) ==
    LET isToday == DateIs(g, date)
        isPastIncomplete == DateBefore(g, date) /\ ~g.completed
        isPastCompletedToday ==
            DateBefore(g, date) /\ g.completed /\ g.completedAt = <<date>>
    IN  isToday \/ isPastIncomplete \/ isPastCompletedToday

getGoals(all, date) == SelectSeq(all, LAMBDA g : shouldIncludeGoal(g, date))

\* the id the store gives a new record: 'g_' + Date.now() in the mock store,
\* an auto-generated document id in the remote store
NewId(prefix) ==
    IF isFirebaseConfigured THEN <<"doc", nextDocId>> ELSE <<prefix, now>>

addGoal(all, goal) == Append(all, [goal EXCEPT !.id = NewId("g_")])

\* an update that is written to every stored goal
updateGoal_Everywhere(all, goalId, updates) ==
    LET idx == FindIndex(all, LAMBDA g : g.id = goalId)
    IN  IF idx # 0 THEN [k \in 1..Len(all) |-> Spread(all[k], updates)] ELSE all

updateGoal(all, goalId, updates) ==
    LET idx == FindIndex(all, LAMBDA g : g.id = goalId)
    IN  IF idx # 0 THEN [all EXCEPT ![idx] = Spread(all[idx], updates)] ELSE all

\* a filter with the test the wrong way round
deleteGoal_Inverted(all, goalId) == SelectSeq(all, LAMBDA g : g.id = goalId)

deleteGoal(all, goalId) == SelectSeq(all, LAMBDA g : g.id # goalId)

\* an update that also moves the goal to the day of the toggle
toggleGoal_MovesToToday(all, goalId, currentStatus, today) ==
    LET newStatus == ~currentStatus
        updates == [completed |-> newStatus,
                    completedAt |-> IF newStatus THEN <<today>> ELSE Null,
                    date |-> today]
        idx == FindIndex(all, LAMBDA g : g.id = goalId)
    IN  IF idx # 0 THEN [all EXCEPT ![idx] = Spread(all[idx], updates)] ELSE all

\* an update that sets the flag and forgets the date
toggleGoal_NoDate(all, goalId, currentStatus, today) ==
    LET newStatus == ~currentStatus
        updates == [completed |-> newStatus, completedAt |-> Null]
        idx == FindIndex(all, LAMBDA g : g.id = goalId)
    IN  IF idx # 0 THEN [all EXCEPT ![idx] = Spread(all[idx], updates)] ELSE all

toggleGoal(all, goalId, currentStatus, today) ==
    LET newStatus == ~currentStatus
        updates == [completed |-> newStatus,
                    completedAt |-> IF newStatus THEN <<today>> ELSE Null]
        idx == FindIndex(all, LAMBDA g : g.id = goalId)
    IN  IF idx # 0 THEN [all EXCEPT ![idx] = Spread(all[idx], updates)] ELSE all

----------------------------------------------------------------------------
(* services/api: sessions *)

\* limit(200) of the remote query
PageLimit == 200

\* allSessions.slice(0, n), and the page cut of the remote query
Slice(s, n) == SubSeq(s, 1, IF Len(s) < n THEN Len(s) ELSE n)

getSessions(all) ==
    LET ordered == StableSort(all, LAMBDA a, b : a.endTime > b.endTime)
    IN  IF isFirebaseConfigured THEN Slice(ordered, PageLimit) ELSE ordered

getSessionsOn(all, date) == SelectSeq(all, LAMBDA s : s.date = date)

addSession(all, session) == Append(all, [session EXCEPT !.id = NewId("s_")])

\* api.updateSession and api.deleteSession are called by the Dashboard; they
\* are the "analogous CRUD" of the persistence contract
updateSession(all, sessionId, updates) ==
    LET idx == FindIndex(all, LAMBDA x : x.id = sessionId)
    IN  IF idx # 0 THEN [all EXCEPT ![idx] = Spread(all[idx], updates)] ELSE all

deleteSession(all, sessionId) == SelectSeq(all, LAMBDA x : x.id # sessionId)

----------------------------------------------------------------------------
(* services/api: confidence (one entry per date, upsert) *)

logConfidence(all, date, score) ==
    LET idx == FindIndex(all, LAMBDA c : c.date = date)
    IN  IF idx # 0 THEN [all EXCEPT ![idx] = [date |-> date, score |-> score]]
        ELSE Append(all, [date |-> date, score |-> score])

\* getConfidence(uid, date): the score of that date, or null
getConfidenceOn(all, date) ==
    LET idx == FindIndex(all, LAMBDA c : c.date = date)
    IN  IF idx # 0 THEN <<all[idx].score>> ELSE Null

\* getConfidence(uid): all the scores
getConfidence(all) == [i \in 1..Len(all) |-> all[i].score]

getConfidenceHistory(all) == all

\* confMap[date] || null of the trend: forEach keeps the last entry of a
\* date, and a score of 0 is replaced by null
trendConfidence(confHistory, date) ==
    LET onDate == SelectSeq(confHistory, LAMBDA c : c.date = date)
    IN  IF onDate # <<>> /\ onDate[Len(onDate)].score # 0
        THEN <<onDate[Len(onDate)].score>> ELSE Null

----------------------------------------------------------------------------
(* Numbers *)

\* Math.round(n / d) for n >= 0, d > 0: halves round up
MathRound(n, d) == (2 * n + d) \div (2 * d)

\* The whole-minute totals m, below 600, for which the double m / 60 lies
\* strictly below the decimal tie k/10 + 0.05, so that toFixed(1) rounds it
\* down; on every other tie the double is the tie or above it and toFixed(1)
\* rounds up.
ToFixedTiesDown ==
    {9, 21, 51, 57, 69, 87, 99, 117, 123, 129, 153, 159, 183, 189, 213, 219, 243,
     261, 273, 291, 303, 321, 333, 351, 363, 381, 393, 411, 423, 441, 453, 471,
     501, 507, 531, 537, 561, 567, 591, 597}

\* parseFloat((minutes / 60).toFixed(1)), in tenths of an hour; the argument
\* is a duration in the unit of Minutes
ToFixed1(d) ==
    LET perTenth == Minutes(MinutesPerHour) \div 10
        tie == (d % perTenth) * 2 = perTenth
    IN  IF tie /\ (d \div SecondsPerMinute) \in ToFixedTiesDown
        THEN d \div perTenth
        ELSE (2 * d + perTenth) \div (2 * perTenth)

----------------------------------------------------------------------------
(* Dashboard.fetchDashboardData: the aggregation *)

Durations(ss) == [i \in 1..Len(ss) |-> ss[i].durationMinutes]

todaysSessions(allSessions, today) == SelectSeq(allSessions, LAMBDA x : x.date = today)

totalMinutesStudied(allSessions, today) == SumSeq(Durations(todaysSessions(allSessions, today)))

\* subjectMins, then Object.keys(subjectMins).map(...): one entry per subject,
\* in the order the subjects are first met
chartData(allSessions, today) ==
    LET ts == todaysSessions(allSessions, today)
        firsts == SelectSeq([i \in 1..Len(ts) |-> i],
                            LAMBDA i : \A j \in 1..(i - 1) : ts[j].subject # ts[i].subject)
    IN  [k \in 1..Len(firsts) |->
            [name |-> ts[firsts[k]].subject,
             value |-> SumSeq(Durations(SelectSeq(ts,
                          LAMBDA x : x.subject = ts[firsts[k]].subject)))]]

targetMinutes(fetchedGoals) ==
    SumSeq([i \in 1..Len(fetchedGoals) |-> fetchedGoals[i].targetMinutes])

\* an attribution by subject alone
goalSpecificMinutes_BySubject(g, allSessions, today) ==
    SumSeq(Durations(SelectSeq(todaysSessions(allSessions, today),
                               LAMBDA x : x.subject = g.subject)))

goalSpecificMinutes(g, allSessions, today) ==
    SumSeq(Durations(SelectSeq(todaysSessions(allSessions, today),
                               LAMBDA x : x.subject = g.subject /\ x.topic = g.title)))

\* { ...g, actualHours }; actualHours is kept in tenths of an hour
WithActualHours(g, tenths) ==
    [f \in DOMAIN g \cup {"actualHours"} |-> IF f = "actualHours" THEN tenths ELSE g[f]]

pMap(p) == CASE p = "High" -> 3 [] p = "Medium" -> 2 [] p = "Low" -> 1

\* a comparator that looks at the priority alone
GoalBefore_ByPriority(a, b) == pMap(b.priority) - pMap(a.priority) < 0

\* the comparator of goalsWithProgress.sort: a goes before b
GoalBefore(a, b) ==
    IF a.completed = b.completed
    THEN pMap(b.priority) - pMap(a.priority) < 0
    ELSE ~a.completed

goalsWithProgress(fetchedGoals, allSessions, today) ==
    StableSort([i \in 1..Len(fetchedGoals) |->
                   WithActualHours(fetchedGoals[i],
                       ToFixed1(goalSpecificMinutes(fetchedGoals[i], allSessions, today)))],
               GoalBefore)

completedCount(gs) == Len(SelectSeq(gs, LAMBDA g : g.completed))

\* allSessions.slice(0, 5)
RecentCount == 5

\* the average of the Dashboard: null when there is no entry
dashboardAvgConfidence(allConf) ==
    IF Len(allConf) > 0 THEN <<MathRound(SumSeq(allConf), Len(allConf))>> ELSE Null

----------------------------------------------------------------------------
(* Dashboard render *)

hoursTargetPositive == todayStats.targetMinutes > 0

\* Math.min(100, total / target * 100) when the target is positive, else 0;
\* the result is kept as a fraction <<numerator, denominator>>
timeProgressPercent ==
    IF hoursTargetPositive
    THEN IF todayStats.totalMinutesStudied >= Minutes(todayStats.targetMinutes)
         THEN <<100, 1>>
         ELSE <<100 * todayStats.totalMinutesStudied, Minutes(todayStats.targetMinutes)>>
    ELSE <<0, 1>>

\* the label beside it: Math.round(total / (target || 1) * 100)
timeProgressLabel ==
    LET target == IF todayStats.targetMinutes # 0 THEN todayStats.targetMinutes ELSE 1
    IN  MathRound(100 * todayStats.totalMinutesStudied, Minutes(target))

\* the average confidence cell: the number, or '-'
dashboardAvgConfidenceLabel ==
    IF avgConfidence # Null THEN <<"percent", avgConfidence[1]>> ELSE <<"-">>

----------------------------------------------------------------------------
(* Analytics.fetchData: the aggregation *)

TrendDays == 14
HeatmapDays == 30

\* the keys of trendMap: the dates written by the loop i = 13 .. 0
trendKeys(t) == {UTCDate(SetDateBack(t, i)) : i \in 0..(TrendDays - 1)}

SumOn(sessions, date) == SumSeq(Durations(SelectSeq(sessions, LAMBDA x : x.date = date)))

\* the elements of a set of numbers as an ascending sequence
RECURSIVE Ascending(_)
Ascending(S) ==
    IF S = {} THEN <<>>
    ELSE LET least == CHOOSE x \in S : \A y \in S : x <= y
         IN  <<least>> \o Ascending(S \ {least})

\* Object.keys(trendMap).sort().map(...); date.substring(5) drops the year,
\* the entry is kept under its whole date; hours is in tenths of an hour
trendChartData(sessions, t) ==
    LET keys == Ascending(trendKeys(t))
    IN  [k \in 1..Len(keys) |->
            [date |-> keys[k], hours |-> ToFixed1(SumOn(sessions, keys[k]))]]

intensity(dayMinsVal) ==
    IF dayMinsVal = 0 THEN 0
    ELSE IF dayMinsVal < Minutes(60) THEN 1
    ELSE IF dayMinsVal < Minutes(120) THEN 2
    ELSE IF dayMinsVal < Minutes(240) THEN 3 ELSE 4

\* heatmapArr: one push per i = 29 .. 0
heatmapArr(sessions, t) ==
    [k \in 1..HeatmapDays |->
        LET dateStr == UTCDate(SetDateBack(t, HeatmapDays - k))
            dayMinsVal == SumOn(sessions, dateStr)
        IN  [date |-> dateStr, mins |-> dayMinsVal, intensity |-> intensity(dayMinsVal)]]

\* one turn of the streak loop: new Date(tempDate), setDate(getDate() - 1),
\* toISOString().split('T')[0]
PreviousDate(tempDate) == UTCDate(SetDateBack(ParseDate(tempDate), 1))

RECURSIVE StreakFrom(_, _)
StreakFrom(sessionDatesSet, tempDate) ==
    IF tempDate \in sessionDatesSet
    THEN 1 + StreakFrom(sessionDatesSet, PreviousDate(tempDate))
    ELSE 0

currentStreak(sessions, t) ==
    LET today == UTCDate(t)
        yesterday == UTCDate(t - HoursPerDay)
        sessionDatesSet == {sessions[i].date : i \in 1..Len(sessions)}
    IN  IF today \in sessionDatesSet THEN StreakFrom(sessionDatesSet, today)
        ELSE IF yesterday \in sessionDatesSet THEN StreakFrom(sessionDatesSet, yesterday)
        ELSE 0

\* dayMins[day] summed: the minutes of the sessions whose date falls on that
\* day of the week
dayTotal(sessions, day) ==
    SumSeq(Durations(SelectSeq(sessions, LAMBDA x : getDay(ParseDate(x.date)) = day)))

\* the forEach over the keys 0 .. 6: a later day wins only with more minutes
RECURSIVE BestDayScan(_, _, _, _)
BestDayScan(sessions, day, bestDayIndex, maxTotal) ==
    IF day = DaysPerWeek THEN bestDayIndex
    ELSE IF dayTotal(sessions, day) > maxTotal
         THEN BestDayScan(sessions, day + 1, day, dayTotal(sessions, day))
         ELSE BestDayScan(sessions, day + 1, bestDayIndex, maxTotal)

dayNames == <<"Sunday", "Monday", "Tuesday", "Wednesday", "Thursday", "Friday", "Saturday">>

bestDay(sessions) == dayNames[BestDayScan(sessions, 0, 0, 0) + 1]

\* the values of a field of the records of s, each once, in the order they
\* are first met
FirstsBy(s, Key(_)) ==
    LET firsts == SelectSeq([i \in 1..Len(s) |-> i],
                            LAMBDA i : \A j \in 1..(i - 1) : Key(s[j]) # Key(s[i]))
    IN  [k \in 1..Len(firsts) |-> Key(s[firsts[k]])]

\* pieData: hours per subject, in tenths of an hour
pieData(sessions) ==
    LET names == FirstsBy(sessions, LAMBDA x : x.subject)
    IN  [k \in 1..Len(names) |->
            [name |-> names[k],
             value |-> ToFixed1(SumSeq(Durations(SelectSeq(sessions,
                          LAMBDA x : x.subject = names[k]))))]]

\* logArr: the days that have sessions, latest first, and per day the
\* subjects with their topics and their minutes rounded
logArr(sessions) ==
    LET dates == Ascending({sessions[i].date : i \in 1..Len(sessions)})
        entry(date) ==
            LET ofDay == SelectSeq(sessions, LAMBDA x : x.date = date)
                names == FirstsBy(ofDay, LAMBDA x : x.subject)
                subjects ==
                    [k \in 1..Len(names) |->
                        LET ofSubject == SelectSeq(ofDay, LAMBDA x : x.subject = names[k])
                        IN  [name |-> names[k],
                             topics |-> FirstsBy(ofSubject, LAMBDA x : x.topic),
                             duration |-> MathRound(SumSeq(Durations(ofSubject)),
                                                    SecondsPerMinute)]]
            IN  [date |-> date, subjects |-> subjects,
                 totalMins |-> SumSeq([k \in 1..Len(subjects) |-> subjects[k].duration])]
    IN  [k \in 1..Len(dates) |-> entry(dates[Len(dates) + 1 - k])]

\* the average of Analytics: 0 when there is no entry
avgConf(allConf) ==
    IF Len(allConf) > 0 THEN MathRound(SumSeq(allConf), Len(allConf)) ELSE 0

totalMins(sessions) == SumSeq(Durations(sessions))

\* the Avg Confidence cell of Analytics: always a number and a percent sign
analyticsAvgConfidenceLabel == <<"percent", stats.avgConfidence>>

----------------------------------------------------------------------------
(* User input *)

FormTitles == {"Ohm's Law"}
FormSubjects == {"Science"}
FormHours == {1}
FormMinutes == {0}
FormPriorities == {"High"}
ManualDurations == {45}
EditDurations == {45}
ConfidenceInputs == {0, 75}

----------------------------------------------------------------------------
(* Initial state: the page is loaded, nobody is signed in *)

emptyTodayStats ==
    [totalMinutesStudied |-> 0, targetMinutes |-> 0, completedGoals |-> 0, totalGoals |-> 0]

emptyStats ==
    [totalHours |-> 0, avgConfidence |-> 0, streak |-> 0, bestDay |-> "", avgSession |-> 0]

UTC == [offset |-> 0, dstFrom |-> 0, dstUntil |-> 0]

\* a stopTimer call whose SessionTracker is gone: what it sets when its save
\* is answered reaches no component
Orphaned(calls) == [k \in 1..Len(calls) |-> [calls[k] EXCEPT !.mounted = FALSE]]

\* the SessionTracker of a page that is rendered anew: the state of its
\* hooks and refs is the initial one, the interval of the old one is cleared
SessionTrackerMounted ==
    /\ selectedGoal' = Null
    /\ isRunning' = FALSE
    /\ seconds' = 0
    /\ startTimeRef' = Null

DashboardMounted ==
    /\ goals' = <<>>
    /\ todayStats' = emptyTodayStats
    /\ subjectDistribution' = <<>>
    /\ recentSessions' = <<>>
    /\ loading' = TRUE
    /\ confidence' = Null
    /\ avgConfidence' = Null
    /\ isEditingConfidence' = FALSE
    /\ SessionTrackerMounted

\* the components as they are constructed, nothing in flight
InitViews ==
    /\ pendingToggles = <<>>
    /\ headerStats = [total |-> 0, completed |-> 0]
    /\ goals = <<>>
    /\ todayStats = emptyTodayStats
    /\ subjectDistribution = <<>>
    /\ recentSessions = <<>>
    /\ loading = TRUE
    /\ confidence = Null
    /\ avgConfidence = Null
    /\ isEditingConfidence = FALSE
    /\ refreshes = <<>>
    /\ selectedGoal = Null
    /\ plannerGoals = <<>>
    /\ plannerFetch = Null
    /\ ops = 0
    /\ isRunning = FALSE
    /\ seconds = 0
    /\ startTimeRef = Null
    /\ stopTimers = <<>>
    /\ stats = emptyStats
    /\ weeklyData = <<>>
    /\ heatmapData = <<>>
    /\ subjectData = <<>>
    /\ dailyLog = <<>>
    /\ analyticsFetch = Null

Init ==
    /\ InitViews
    /\ isFirebaseConfigured \in BOOLEAN
    /\ currentUser = FALSE
    /\ storedGoals = <<>>
    /\ storedSessions = <<>>
    /\ storeExists = FALSE
    /\ nextDocId = 1
    /\ storedConfidence = <<>>
    /\ view = "dashboard"
    /\ now = 0
    /\ tz = UTC

----------------------------------------------------------------------------
(* Time passes *)

Tick ==
    /\ now + ClockStep <= MaxNow
    /\ now' = now + ClockStep
    /\ UNCHANGED <<isFirebaseConfigured, currentUser, storeVars, pendingToggles, view,
                   headerStats, dashVars, refreshes, selectedGoal, timerVars, plannerGoals,
                   plannerFetch, ops, analyticsVars>>

----------------------------------------------------------------------------
(* Dashboard.fetchDashboardData, one step per awaited call *)

NewRefresh == [pc |-> "getGoals", today |-> Today, fetchedGoals |-> <<>>]

\* the part of fetchDashboardData before the first await; the loading screen
\* replaces the page, SessionTracker included
refreshStarted ==
    /\ Len(refreshes) < MaxRefreshes
    /\ refreshes' = Append(refreshes, NewRefresh)
    /\ loading' = TRUE
    /\ SessionTrackerMounted

fetchDashboardData ==
    /\ refreshStarted
    /\ stopTimers' = Orphaned(stopTimers)

RemoveAt(s, i) == [k \in 1..(Len(s) - 1) |-> IF k < i THEN s[k] ELSE s[k + 1]]

\* api.getGoals answers
RefreshGoals(i) ==
    /\ i \in 1..Len(refreshes)
    /\ refreshes[i].pc = "getGoals"
    /\ refreshes' = [refreshes EXCEPT ![i].pc = "getSessions",
                                      ![i].fetchedGoals = getGoals(storedGoals, refreshes[i].today)]
    /\ UNCHANGED <<isFirebaseConfigured, currentUser, now, storeVars, pendingToggles, view,
                   headerStats, dashVars, selectedGoal, timerVars, plannerGoals, plannerFetch,
                   ops, analyticsVars>>

\* api.getSessions answers: statistics, goal list, header badge, chart
RefreshSessions(i) ==
    /\ i \in 1..Len(refreshes)
    /\ refreshes[i].pc = "getSessions"
    /\ LET r == refreshes[i]
           allSessions == getSessions(storedSessions)
           withProgress == goalsWithProgress(r.fetchedGoals, allSessions, r.today)
           counts == [total |-> Len(r.fetchedGoals), completed |-> completedCount(withProgress)]
       IN  /\ recentSessions' = Slice(allSessions, RecentCount)
           /\ goals' = withProgress
           /\ todayStats' =
                 [totalMinutesStudied |-> totalMinutesStudied(allSessions, r.today),
                  targetMinutes |-> targetMinutes(r.fetchedGoals),
                  completedGoals |-> counts.completed,
                  totalGoals |-> counts.total]
           /\ headerStats' = counts
           /\ subjectDistribution' = chartData(allSessions, r.today)
    /\ refreshes' = [refreshes EXCEPT ![i].pc = "getConfidence", ![i].fetchedGoals = <<>>]
    /\ UNCHANGED <<isFirebaseConfigured, currentUser, now, storeVars, pendingToggles, view,
                   loading, confidence, avgConfidence, isEditingConfidence, selectedGoal,
                   timerVars,
                   plannerGoals, plannerFetch, ops, analyticsVars>>

\* api.getConfidence(uid, today) answers
RefreshConfidence(i) ==
    /\ i \in 1..Len(refreshes)
    /\ refreshes[i].pc = "getConfidence"
    /\ confidence' = getConfidenceOn(storedConfidence, refreshes[i].today)
    /\ refreshes' = [refreshes EXCEPT ![i].pc = "getAllConfidence"]
    /\ UNCHANGED <<isFirebaseConfigured, currentUser, now, storeVars, pendingToggles, view,
                   headerStats, goals, todayStats, subjectDistribution, recentSessions,
                   loading, avgConfidence, isEditingConfidence, selectedGoal,
                   timerVars, plannerGoals,
                   plannerFetch, ops, analyticsVars>>

\* api.getConfidence(uid) answers; the loading screen goes
RefreshDone(i) ==
    /\ i \in 1..Len(refreshes)
    /\ refreshes[i].pc = "getAllConfidence"
    /\ avgConfidence' = dashboardAvgConfidence(getConfidence(storedConfidence))
    /\ loading' = FALSE
    /\ refreshes' = RemoveAt(refreshes, i)
    /\ UNCHANGED <<isFirebaseConfigured, currentUser, now, storeVars, pendingToggles, view,
                   headerStats, goals, todayStats, subjectDistribution, recentSessions,
                   confidence, isEditingConfidence, selectedGoal,
                   timerVars, plannerGoals,
                   plannerFetch, ops, analyticsVars>>

----------------------------------------------------------------------------
(* services/api.signIn and signUp, then the page reloads on the Dashboard *)

signIn ==
    /\ ~currentUser
    /\ currentUser' = TRUE
    /\ IF ~isFirebaseConfigured /\ ~storeExists
       THEN /\ storedGoals' = initialGoals
            /\ storedSessions' = initialSessions
            /\ storeExists' = TRUE
       ELSE UNCHANGED <<storedGoals, storedSessions, storeExists>>
    /\ view' = "dashboard"
    /\ DashboardMounted
    /\ refreshes' = <<NewRefresh>>
    /\ UNCHANGED <<isFirebaseConfigured, now, nextDocId, storedConfidence, pendingToggles,
                   headerStats, stopTimers, plannerGoals, plannerFetch, ops, analyticsVars>>

----------------------------------------------------------------------------
(* Dashboard handlers; the page is there only when loading is false *)

DashboardShown == currentUser /\ view = "dashboard" /\ ~loading

\* one more write by the user
UserWrites == ops < MaxOps /\ ops' = ops + 1

\* click on the circle of goals[k].  The mock store is written at once; the
\* remote update is sent with the flag the page shows and answered later.
toggleGoalCompletion(k) ==
    /\ DashboardShown
    /\ k \in 1..Len(goals)
    /\ UserWrites
    /\ IF isFirebaseConfigured
       THEN /\ Len(pendingToggles) < MaxPending
            /\ pendingToggles' = Append(pendingToggles,
                   [goalId |-> goals[k].id, currentStatus |-> goals[k].completed,
                    today |-> Today])
            /\ UNCHANGED <<storedGoals, refreshes, loading, selectedGoal, timerVars>>
       ELSE /\ storedGoals' = toggleGoal(storedGoals, goals[k].id, goals[k].completed, Today)
            /\ fetchDashboardData
            /\ UNCHANGED pendingToggles
    /\ UNCHANGED <<isFirebaseConfigured, currentUser, now, storedSessions, storeExists,
                   nextDocId, storedConfidence, view, headerStats, goals, todayStats,
                   subjectDistribution, recentSessions, confidence, avgConfidence,
                   isEditingConfidence, plannerGoals, plannerFetch, analyticsVars>>

\* the remote store answers the oldest toggleGoal update; updateDoc rejects
\* when the document is gone, and then no refresh follows
toggleGoalAnswered ==
    /\ pendingToggles # <<>>
    /\ LET t == Head(pendingToggles)
           found == \E g \in Range(storedGoals) : g.id = t.goalId
       IN  /\ storedGoals' = toggleGoal(storedGoals, t.goalId, t.currentStatus, t.today)
           /\ IF found
              THEN fetchDashboardData
              ELSE UNCHANGED <<refreshes, loading, selectedGoal, timerVars>>
    /\ pendingToggles' = Tail(pendingToggles)
    /\ UNCHANGED <<isFirebaseConfigured, currentUser, now, storedSessions, storeExists,
                   nextDocId, storedConfidence, view, headerStats, goals, todayStats,
                   subjectDistribution, recentSessions, confidence, avgConfidence,
                   isEditingConfidence, plannerGoals, plannerFetch, ops, analyticsVars>>

\* a number is truthy unless it is null or 0
Truthy(n) == n # Null /\ n[1] # 0

CheckInShown ==
    /\ Len(goals) > 0
    /\ Len(SelectSeq(goals, LAMBDA g : ~g.completed)) <= 1
    /\ (~Truthy(confidence) \/ isEditingConfidence)

handleConfidenceLog(score) ==
    /\ DashboardShown
    /\ CheckInShown
    /\ UserWrites
    /\ storedConfidence' = logConfidence(storedConfidence, Today, score)
    /\ confidence' = <<score>>
    /\ isEditingConfidence' = FALSE
    /\ fetchDashboardData
    /\ UNCHANGED <<isFirebaseConfigured, currentUser, now, storedGoals, storedSessions,
                   storeExists, nextDocId, pendingToggles, view, headerStats, goals,
                   todayStats, subjectDistribution, recentSessions, avgConfidence,
                   plannerGoals, plannerFetch, analyticsVars>>

\* the "Today's Confidence" card: confidence && !isEditingConfidence
ConfidenceCardShown == Truthy(confidence) /\ ~isEditingConfidence

\* the Edit button of the confidence card, and Cancel of the check-in
setIsEditingConfidence(b) ==
    /\ DashboardShown
    /\ Truthy(confidence)
    /\ IF b THEN ~isEditingConfidence ELSE CheckInShown
    /\ isEditingConfidence' = b
    /\ UNCHANGED <<isFirebaseConfigured, currentUser, now, storeVars, pendingToggles, view,
                   headerStats, goals, todayStats, subjectDistribution, recentSessions,
                   loading, confidence, avgConfidence, refreshes, selectedGoal, timerVars,
                   plannerGoals, plannerFetch, ops, analyticsVars>>

handleDeleteSession(k) ==
    /\ DashboardShown
    /\ k \in 1..Len(recentSessions)
    /\ UserWrites
    /\ storedSessions' = deleteSession(storedSessions, recentSessions[k].id)
    /\ fetchDashboardData
    /\ UNCHANGED <<isFirebaseConfigured, currentUser, now, storedGoals, storeExists,
                   nextDocId, storedConfidence, pendingToggles, view, headerStats, goals,
                   todayStats, subjectDistribution, recentSessions, confidence,
                   avgConfidence, isEditingConfidence, plannerGoals, plannerFetch,
                   analyticsVars>>

\* handleEditSession(recentSessions[k]), a duration typed in, then Update
handleSaveEdit(k, editDuration) ==
    /\ DashboardShown
    /\ k \in 1..Len(recentSessions)
    /\ UserWrites
    /\ storedSessions' = updateSession(storedSessions, recentSessions[k].id,
                                       [durationMinutes |-> Minutes(editDuration)])
    /\ fetchDashboardData
    /\ UNCHANGED <<isFirebaseConfigured, currentUser, now, storedGoals, storeExists,
                   nextDocId, storedConfidence, pendingToggles, view, headerStats, goals,
                   todayStats, subjectDistribution, recentSessions, confidence,
                   avgConfidence, isEditingConfidence, plannerGoals, plannerFetch,
                   analyticsVars>>

----------------------------------------------------------------------------
(* SessionTracker *)

\* the picker offers the goals of the page that are not completed; it is
\* disabled while the stopwatch runs
handleGoalSelect(k) ==
    /\ DashboardShown
    /\ ~isRunning
    /\ k \in 1..Len(goals)
    /\ ~goals[k].completed
    /\ selectedGoal' = <<[id |-> goals[k].id, subject |-> goals[k].subject,
                          topic |-> goals[k].title]>>
    /\ selectedGoal' # selectedGoal
    /\ UNCHANGED <<isFirebaseConfigured, currentUser, now, storeVars, pendingToggles, view,
                   headerStats, dashVars, refreshes, timerVars, plannerGoals, plannerFetch,
                   ops, analyticsVars>>

\* saveSession, then onSessionComplete
saveSession(duration) ==
    /\ Len(storedSessions) < MaxSessions
    /\ isFirebaseConfigured => nextDocId <= MaxDocs
    /\ storedSessions' = addSession(storedSessions,
           [id |-> <<>>, date |-> Today, subject |-> selectedGoal[1].subject,
            topic |-> selectedGoal[1].topic, endTime |-> now,
            durationMinutes |-> duration])
    /\ nextDocId' = IF isFirebaseConfigured THEN nextDocId + 1 ELSE nextDocId
    /\ fetchDashboardData

handleManualSubmit(durationInput) ==
    /\ DashboardShown
    /\ selectedGoal # Null
    /\ durationInput > 0
    /\ UserWrites
    /\ saveSession(Minutes(durationInput))
    /\ UNCHANGED <<isFirebaseConfigured, currentUser, now, storedGoals, storeExists,
                   storedConfidence, pendingToggles, view, headerStats, goals, todayStats,
                   subjectDistribution, recentSessions, confidence, avgConfidence,
                   isEditingConfidence, plannerGoals, plannerFetch, analyticsVars>>

\* the stopwatch: the clock is read in hours, the stopwatch counts seconds
SecondsPerHour == 3600
MinSavedSeconds == 5
MaxStopTimers == 2     \* stopTimer calls that await their save at a time

\* (now - startTimeRef.current) / 1000
elapsedSeconds == (now - startTimeRef[1]) * SecondsPerHour

\* START FOCUS SESSION: the button is there when the stopwatch is not running
\* and is disabled without a selected goal
startTimer ==
    /\ DashboardShown
    /\ ~isRunning
    /\ selectedGoal # Null
    /\ isRunning' = TRUE
    /\ startTimeRef' = <<now>>
    /\ UNCHANGED <<isFirebaseConfigured, currentUser, now, storeVars, pendingToggles, view,
                   headerStats, dashVars, refreshes, selectedGoal, seconds, stopTimers,
                   plannerGoals, plannerFetch, ops, analyticsVars>>

\* the callback of the interval that startTimer sets and stopTimer clears
timerInterval ==
    /\ DashboardShown
    /\ isRunning
    /\ startTimeRef # Null
    /\ seconds' = elapsedSeconds
    /\ seconds' # seconds
    /\ UNCHANGED <<isFirebaseConfigured, currentUser, now, storeVars, pendingToggles, view,
                   headerStats, dashVars, refreshes, selectedGoal, isRunning, startTimeRef,
                   stopTimers, plannerGoals, plannerFetch, ops, analyticsVars>>

\* Stop Session.  elapsedSeconds / 60 minutes is elapsedSeconds in the unit
\* of Minutes.  The mock store saves without waiting; the save of the remote
\* store is awaited, and setSeconds(0) and startTimeRef.current = null come
\* after it.
stopTimer ==
    /\ DashboardShown
    /\ isRunning
    /\ startTimeRef # Null
    /\ IF elapsedSeconds >= MinSavedSeconds
       THEN /\ UserWrites
            /\ IF isFirebaseConfigured
               THEN /\ Len(stopTimers) < MaxStopTimers
                    /\ stopTimers' = Append(stopTimers,
                           [session |-> [id |-> <<>>, date |-> Today,
                                         subject |-> selectedGoal[1].subject,
                                         topic |-> selectedGoal[1].topic, endTime |-> now,
                                         durationMinutes |-> elapsedSeconds],
                            mounted |-> TRUE])
                    /\ isRunning' = FALSE
                    /\ UNCHANGED <<storedSessions, nextDocId, refreshes, loading,
                                   selectedGoal, seconds, startTimeRef>>
               ELSE saveSession(elapsedSeconds)
       ELSE /\ isRunning' = FALSE
            /\ seconds' = 0
            /\ startTimeRef' = Null
            /\ UNCHANGED <<storedSessions, nextDocId, refreshes, loading, selectedGoal,
                           stopTimers, ops>>
    /\ UNCHANGED <<isFirebaseConfigured, currentUser, now, storedGoals, storeExists,
                   storedConfidence, pendingToggles, view, headerStats, goals, todayStats,
                   subjectDistribution, recentSessions, confidence, avgConfidence,
                   isEditingConfidence, plannerGoals, plannerFetch, analyticsVars>>

\* the remote store has added the session: onSessionComplete refreshes the
\* Dashboard
stopTimerAnswered(i) ==
    /\ i \in 1..Len(stopTimers)
    /\ Len(storedSessions) < MaxSessions
    /\ nextDocId <= MaxDocs
    /\ storedSessions' = addSession(storedSessions, stopTimers[i].session)
    /\ nextDocId' = nextDocId + 1
    /\ refreshStarted
    /\ stopTimers' = Orphaned(RemoveAt(stopTimers, i))
    /\ UNCHANGED <<isFirebaseConfigured, currentUser, now, storedGoals, storeExists,
                   storedConfidence, pendingToggles, view, headerStats, goals, todayStats,
                   subjectDistribution, recentSessions, confidence, avgConfidence,
                   isEditingConfidence, plannerGoals, plannerFetch, ops, analyticsVars>>

\* the remote store rejects the session: saveSession logs the error and
\* stopTimer goes on
stopTimerRejected(i) ==
    /\ i \in 1..Len(stopTimers)
    /\ stopTimers' = RemoveAt(stopTimers, i)
    /\ IF stopTimers[i].mounted
       THEN seconds' = 0 /\ startTimeRef' = Null
       ELSE UNCHANGED <<seconds, startTimeRef>>
    /\ UNCHANGED <<isFirebaseConfigured, currentUser, now, storeVars, pendingToggles, view,
                   headerStats, dashVars, refreshes, selectedGoal, isRunning, plannerGoals,
                   plannerFetch, ops, analyticsVars>>

----------------------------------------------------------------------------
(* Planner *)

\* fetchGoals up to its await
fetchGoals == plannerFetch' = <<Today>>

\* api.getGoals answers
fetchGoalsAnswered ==
    /\ plannerFetch # Null
    /\ LET fetched == getGoals(storedGoals, plannerFetch[1])
       IN  /\ plannerGoals' = fetched
           /\ headerStats' = [total |-> Len(fetched), completed |-> completedCount(fetched)]
    /\ plannerFetch' = Null
    /\ UNCHANGED <<isFirebaseConfigured, currentUser, now, storeVars, pendingToggles, view,
                   dashVars, refreshes, selectedGoal, timerVars, ops, analyticsVars>>

PlannerShown == currentUser /\ view = "planner"

\* the title input is required: the browser does not submit the form without
TitleGiven(title) == title # ""

handleAddGoal(title, subject, hoursInput, minutesInput, priority) ==
    /\ PlannerShown
    /\ TitleGiven(title)
    /\ Len(storedGoals) < MaxGoals
    /\ UserWrites
    /\ isFirebaseConfigured => nextDocId <= MaxDocs
    /\ storedGoals' = addGoal(storedGoals,
           [id |-> <<>>, date |-> Today, title |-> title, subject |-> subject,
            targetMinutes |-> hoursInput * MinutesPerHour + minutesInput,
            priority |-> priority, completed |-> FALSE, completedAt |-> Null])
    /\ nextDocId' = IF isFirebaseConfigured THEN nextDocId + 1 ELSE nextDocId
    /\ fetchGoals
    /\ UNCHANGED <<isFirebaseConfigured, currentUser, now, storedSessions, storeExists,
                   storedConfidence, pendingToggles, view, headerStats, dashVars, refreshes,
                   selectedGoal, timerVars, plannerGoals, analyticsVars>>

handleDelete(k) ==
    /\ PlannerShown
    /\ k \in 1..Len(plannerGoals)
    /\ UserWrites
    /\ storedGoals' = deleteGoal(storedGoals, plannerGoals[k].id)
    /\ fetchGoals
    /\ UNCHANGED <<isFirebaseConfigured, currentUser, now, storedSessions, storeExists,
                   nextDocId, storedConfidence, pendingToggles, view, headerStats, dashVars,
                   refreshes, selectedGoal, timerVars, plannerGoals, analyticsVars>>

\* startEdit(plannerGoals[k]), the form filled in, then handleUpdate
handleUpdate(k, title, subject, hoursInput, minutesInput, priority) ==
    /\ PlannerShown
    /\ TitleGiven(title)
    /\ k \in 1..Len(plannerGoals)
    /\ UserWrites
    /\ storedGoals' = updateGoal(storedGoals, plannerGoals[k].id,
           [title |-> title, subject |-> subject,
            targetMinutes |-> hoursInput * MinutesPerHour + minutesInput,
            priority |-> priority])
    /\ fetchGoals
    /\ UNCHANGED <<isFirebaseConfigured, currentUser, now, storedSessions, storeExists,
                   nextDocId, storedConfidence, pendingToggles, view, headerStats, dashVars,
                   refreshes, selectedGoal, timerVars, plannerGoals, analyticsVars>>

----------------------------------------------------------------------------
(* App: the sidebar *)

\* The sidebar is used when no call is in flight, so that every answer finds
\* the component that asked.
Quiescent ==
    /\ refreshes = <<>>
    /\ pendingToggles = <<>>
    /\ stopTimers = <<>>
    /\ plannerFetch = Null
    /\ analyticsFetch = Null

AnalyticsMounted ==
    /\ stats' = emptyStats
    /\ weeklyData' = <<>>
    /\ heatmapData' = <<>>
    /\ subjectData' = <<>>
    /\ dailyLog' = <<>>

\* the view that goes is unmounted, the one that comes is mounted and fetches
setView(v) ==
    /\ currentUser
    /\ v # view
    /\ Quiescent
    /\ view' = v
    /\ DashboardMounted
    /\ plannerGoals' = <<>>
    /\ AnalyticsMounted
    /\ refreshes' = IF v = "dashboard" THEN <<NewRefresh>> ELSE <<>>
    /\ plannerFetch' = IF v = "planner" THEN <<Today>> ELSE Null
    /\ analyticsFetch' = IF v = "analytics" THEN <<[pc |-> "getSessions"]>> ELSE Null
    /\ UNCHANGED <<isFirebaseConfigured, currentUser, now, storeVars, pendingToggles,
                   headerStats, stopTimers, ops, tz>>

----------------------------------------------------------------------------
(* Analytics.fetchData, one step per awaited call *)

\* api.getSessions answers: log, trend, heat map and pie are set; the
\* numbers of the header wait for the confidence
fetchDataSessions ==
    /\ analyticsFetch # Null
    /\ analyticsFetch[1].pc = "getSessions"
    /\ LET sessions == getSessions(storedSessions)
       IN  /\ dailyLog' = logArr(sessions)
           /\ weeklyData' = trendChartData(sessions, now)
           /\ heatmapData' = heatmapArr(sessions, now)
           /\ subjectData' = pieData(sessions)
           /\ analyticsFetch' =
                 <<[pc |-> "getConfidence",
                    totalHours |-> MathRound(totalMins(sessions), Minutes(MinutesPerHour)),
                    streak |-> currentStreak(sessions, now),
                    bestDay |-> bestDay(sessions),
                    avgSession |-> IF Len(sessions) > 0
                                   THEN MathRound(totalMins(sessions), Minutes(Len(sessions)))
                                   ELSE 0]>>
    /\ UNCHANGED <<isFirebaseConfigured, currentUser, now, storeVars, pendingToggles, view,
                   headerStats, dashVars, refreshes, selectedGoal, timerVars, plannerGoals,
                   plannerFetch, ops, tz, stats>>

\* api.getConfidence(uid) answers
fetchDataConfidence ==
    /\ analyticsFetch # Null
    /\ analyticsFetch[1].pc = "getConfidence"
    /\ stats' = [totalHours |-> analyticsFetch[1].totalHours,
                 avgConfidence |-> avgConf(getConfidence(storedConfidence)),
                 streak |-> analyticsFetch[1].streak,
                 bestDay |-> analyticsFetch[1].bestDay,
                 avgSession |-> analyticsFetch[1].avgSession]
    /\ analyticsFetch' = Null
    /\ UNCHANGED <<isFirebaseConfigured, currentUser, now, storeVars, pendingToggles, view,
                   headerStats, dashVars, refreshes, selectedGoal, timerVars, plannerGoals,
                   plannerFetch, ops, tz, weeklyData, heatmapData, subjectData, dailyLog>>

----------------------------------------------------------------------------
(* The application *)

Next ==
    \/ Tick
    \/ signIn
    \/ \E v \in {"dashboard", "planner"} : setView(v)
    \/ \E i \in 1..MaxRefreshes : RefreshGoals(i)
    \/ \E i \in 1..MaxRefreshes : RefreshSessions(i)
    \/ \E i \in 1..MaxRefreshes : RefreshConfidence(i)
    \/ \E i \in 1..MaxRefreshes : RefreshDone(i)
    \/ \E k \in 1..MaxGoals : toggleGoalCompletion(k)
    \/ toggleGoalAnswered
    \/ \E score \in ConfidenceInputs : handleConfidenceLog(score)
    \/ \E b \in BOOLEAN : setIsEditingConfidence(b)
    \/ \E k \in 1..RecentCount : handleDeleteSession(k)
    \/ \E k \in 1..RecentCount, d \in EditDurations : handleSaveEdit(k, d)
    \/ \E k \in 1..MaxGoals : handleGoalSelect(k)
    \/ \E d \in ManualDurations : handleManualSubmit(d)
    \/ fetchGoalsAnswered
    \/ \E t \in FormTitles, sb \in FormSubjects, h \in FormHours, m \in FormMinutes,
          p \in FormPriorities : handleAddGoal(t, sb, h, m, p)
    \/ \E k \in 1..MaxGoals : handleDelete(k)
    \/ \E k \in 1..MaxGoals, t \in FormTitles, sb \in FormSubjects, h \in FormHours,
          m \in FormMinutes, p \in FormPriorities : handleUpdate(k, t, sb, h, m, p)

Spec == Init /\ [][Next]_vars


----------------------------------------------------------------------------
(* Analytics over a store of sessions *)

AnalyticsMaxNow == 47     \* the clock reads 0 .. AnalyticsMaxNow
SessionDaysBack == 3      \* the sessions are dated from this many days before day 0

\* Browsers in zones without daylight saving time, and in zones that changed
\* their clocks two days before day 0 (New York at 2:00 local, London at
\* 1:00 UTC), forward or back.
Karachi == [offset |-> 5, dstFrom |-> 0, dstUntil |-> 0]
NewYorkSpring == [offset |-> -5, dstFrom |-> -41, dstUntil |-> 8760]
NewYorkAutumn == [offset |-> -5, dstFrom |-> -8760, dstUntil |-> -42]
LondonSpring == [offset |-> 0, dstFrom |-> -47, dstUntil |-> 8760]
LondonAutumn == [offset |-> 0, dstFrom |-> -8760, dstUntil |-> -47]

Zones == {UTC, Karachi, NewYorkSpring, NewYorkAutumn, LondonSpring, LondonAutumn}

\* one session of 45 minutes on each of the given days, oldest first
SessionsOn(dates) ==
    LET days == Ascending(dates)
    IN  [k \in 1..Len(days) |->
            [id |-> <<"s_", ParseDate(days[k])>>, date |-> days[k], subject |-> "Science",
             topic |-> "Ohm's Law", endTime |-> ParseDate(days[k]),
             durationMinutes |-> Minutes(45)]]

InitAnalytics ==
    /\ InitViews
    /\ isFirebaseConfigured = FALSE
    /\ tz \in Zones
    /\ now \in 0..AnalyticsMaxNow
    /\ \E dates \in SUBSET ((0 - SessionDaysBack)..UTCDate(now)),
          scores \in {<<>>, <<75>>, <<75, 80>>} :
          /\ storedSessions = SessionsOn(dates)
          /\ storedConfidence = [k \in 1..Len(scores) |->
                                    [date |-> UTCDate(now) - Len(scores) + k, score |-> scores[k]]]
    /\ currentUser = TRUE
    /\ storedGoals = <<>>
    /\ storeExists = TRUE
    /\ nextDocId = 1
    /\ view = "planner"

NextAnalytics ==
    \/ setView("analytics")
    \/ fetchDataSessions
    \/ fetchDataConfidence

SpecAnalytics == InitAnalytics /\ [][NextAnalytics]_vars

----------------------------------------------------------------------------
(* Goal visibility *)

LaterDays == 3        \* days looked ahead and back of the clock

RefDates == (0 - LaterDays)..(UTCDate(MaxNow) + LaterDays)

Returned(g, date) == g \in Range(getGoals(storedGoals, date))

\* the writes of toggleGoal and deleteGoal on the goal with this id
ToggleWrites(id) ==
    \/ \E k \in 1..Len(goals) :
          ~isFirebaseConfigured /\ goals[k].id = id /\ toggleGoalCompletion(k)
    \/ pendingToggles # <<>> /\ Head(pendingToggles).goalId = id /\ toggleGoalAnswered

DeleteWrites(id) ==
    \E k \in 1..Len(plannerGoals) : plannerGoals[k].id = id /\ handleDelete(k)

\* the Dashboard shows the list it fetched and nothing is in flight
DashboardSettled ==
    currentUser /\ view = "dashboard" /\ ~loading /\ refreshes = <<>> /\ pendingToggles = <<>>

\* C1: getGoals(today) returns a stored goal if and only if the goal is dated
\* today, or is dated before today and incomplete, or is dated before today,
\* completed and completedAt is today; it returns nothing that is not stored.
C1_VisibleIffRule ==
    \A date \in RefDates :
        LET returned == Range(getGoals(storedGoals, date))
        IN  /\ returned \subseteq Range(storedGoals)
            /\ \A g \in Range(storedGoals) :
                  g \in returned <=>
                      \/ g.date = date
                      \/ (g.date < date /\ g.completed = FALSE)
                      \/ (g.date < date /\ g.completed = TRUE /\ g.completedAt # Null
                          /\ g.completedAt[1] = date)

\* the Dashboard lists a rolled-over goal completed today, and the store holds
\* a goal completed before today that the list leaves out
C1_Witness ==
    /\ DashboardSettled
    /\ \E k \in 1..Len(goals) :
          goals[k].date < Today /\ goals[k].completed /\ goals[k].completedAt = <<Today>>
    /\ \E g \in Range(storedGoals) :
          /\ g.date < Today /\ g.completed /\ g.completedAt # <<Today>>
          /\ \A k \in 1..Len(goals) : goals[k].id # g.id

\* C2: a goal marked complete on day d has completedAt = d, is returned by
\* getGoals(d) and by getGoals of no later day, as long as it stays complete;
\* this holds for goals dated d and for goals dated before d.
C2_CompletedDay ==
    /\ [](\A g \in Range(storedGoals) :
             (g.completed /\ g.completedAt # Null) =>
                 /\ Returned(g, g.completedAt[1])
                 /\ \A k \in 1..LaterDays : ~Returned(g, g.completedAt[1] + k))
    /\ [][\A i \in 1..Len(storedGoals) :
             (/\ Len(storedGoals') = Len(storedGoals)
              /\ ~storedGoals[i].completed
              /\ storedGoals'[i].completed)
             => (/\ storedGoals'[i].completedAt # Null
                 /\ storedGoals'[i].completedAt[1] <= Today
                 /\ storedGoals'[i] \in Range(getGoals(storedGoals', storedGoals'[i].completedAt[1])))]_vars

\* a rolled-over goal completed yesterday is stored, and the list the
\* Dashboard fetched today leaves it out
C2_Witness ==
    /\ DashboardSettled
    /\ goals # <<>>
    /\ {goals[k].id : k \in 1..Len(goals)} = {g.id : g \in Range(getGoals(storedGoals, Today))}
    /\ \E g \in Range(storedGoals) :
          /\ g.completed /\ g.completedAt = <<Today - 1>> /\ g.date < Today - 1
          /\ \A k \in 1..Len(goals) : goals[k].id # g.id

IncompleteDue(id) ==
    \E g \in Range(storedGoals) : g.id = id /\ ~g.completed /\ g.date <= Today

\* C3: an incomplete goal dated today or before is returned by getGoals today
\* and on every later day, and it stays so through every step that is not a
\* toggleGoal or a deleteGoal of that goal.
C3_RolloverNoExpiry ==
    /\ [](\A g \in Range(storedGoals) :
             (~g.completed /\ g.date <= Today) =>
                 \A k \in 0..LaterDays : Returned(g, Today + k))
    /\ [][\A id \in {storedGoals[i].id : i \in 1..Len(storedGoals)} :
             (IncompleteDue(id) /\ ~IncompleteDue(id)')
             => (ToggleWrites(id) \/ DeleteWrites(id))]_vars

\* the Dashboard of a later day lists an incomplete goal of an earlier day
\* that was written through the Planner's form
C3_Witness ==
    /\ DashboardSettled
    /\ \E k \in 1..Len(goals) :
          /\ goals[k].date < Today /\ ~goals[k].completed
          /\ goals[k].title \in FormTitles

----------------------------------------------------------------------------
(* Completion bookkeeping *)

\* C4: every stored goal has completedAt set if and only if it is completed,
\* from the empty store and from the seeded demo data alike, and a completedAt
\* that is set is a day on which a toggle ran, never a day to come.
C4_CompletedAtIffCompleted ==
    \A g \in Range(storedGoals) :
        /\ (g.completedAt # Null) <=> g.completed
        /\ g.completedAt # Null => g.completedAt[1] <= Today

\* C5: every toggleGoal the Dashboard issues leaves the stored flag of the
\* goal the negation of what it was just before, with completedAt set when
\* the new flag is true and cleared when it is false.
C5_ToggleFlips ==
    [][\A id \in {storedGoals[i].id : i \in 1..Len(storedGoals)} :
          ToggleWrites(id) =>
              LET idx == FindIndex(storedGoals, LAMBDA g : g.id = id)
              IN  /\ storedGoals'[idx].completed = ~storedGoals[idx].completed
                  /\ storedGoals'[idx].completed => storedGoals'[idx].completedAt # Null
                  /\ ~storedGoals'[idx].completed => storedGoals'[idx].completedAt = Null]_vars

----------------------------------------------------------------------------
(* Dashboard numbers *)

\* C6: when the Dashboard computes its list, the actualHours of each goal is
\* the sum of the minutes of the sessions of that day with the goal's subject
\* and title, divided by 60, with nothing rounded away (30 and 45 minutes
\* give 1.25).
C6_ActualHoursExact ==
    [][\A i \in 1..Len(refreshes) :
          RefreshSessions(i) =>
              \A k \in 1..Len(goals') :
                  goals'[k].actualHours * Minutes(MinutesPerHour) =
                      10 * goalSpecificMinutes(goals'[k], storedSessions, refreshes[i].today)]_vars

\* C10: the total studied is the sum over the sessions dated today, the target
\* is the sum over the goals getGoals returned, and wherever the Dashboard
\* shows the percent of the daily time goal it shows 0 when the target is 0.
C10_TotalsAndPercent ==
    /\ [][\A i \in 1..Len(refreshes) :
             RefreshSessions(i) =>
                 /\ todayStats'.totalMinutesStudied =
                        SumOn(storedSessions, refreshes[i].today)
                 /\ todayStats'.targetMinutes =
                        SumSeq([k \in 1..Len(refreshes[i].fetchedGoals) |->
                                   refreshes[i].fetchedGoals[k].targetMinutes])]_vars
    /\ []((DashboardShown /\ todayStats.targetMinutes = 0) =>
             (timeProgressPercent[1] = 0 /\ timeProgressLabel = 0))

\* C9 (both views): with no confidence entry the average is shown as absent,
\* never as a percentage; with entries it is their mean, rounded.
AverageOf(allConf) == MathRound(SumSeq(allConf), Len(allConf))

C9_AverageAbsent ==
    LET allConf == getConfidence(storedConfidence)
    IN  /\ (DashboardShown /\ refreshes = <<>>) =>
              IF allConf = <<>>
              THEN dashboardAvgConfidenceLabel[1] # "percent"
              ELSE dashboardAvgConfidenceLabel = <<"percent", AverageOf(allConf)>>
        /\ (currentUser /\ view = "analytics" /\ analyticsFetch = Null) =>
              IF allConf = <<>>
              THEN analyticsAvgConfidenceLabel[1] # "percent"
              ELSE analyticsAvgConfidenceLabel = <<"percent", AverageOf(allConf)>>

----------------------------------------------------------------------------
(* Analytics series *)

AnalyticsLoaded == currentUser /\ view = "analytics" /\ analyticsFetch = Null

SessionDates == {storedSessions[i].date : i \in 1..Len(storedSessions)}

\* the days counted back from D that each have a session, up to the first
\* day that has none
ConsecutiveDaysFrom(D) ==
    CHOOSE n \in 0..Cardinality(SessionDates) :
        /\ \A j \in 0..(n - 1) : (D - j) \in SessionDates
        /\ (D - n) \notin SessionDates

\* C7: the streak is 0 when neither today nor yesterday has a session, and
\* otherwise the number of consecutive calendar days with a session counted
\* back from today, or from yesterday when today has none.
C7_StreakConsecutiveDays ==
    AnalyticsLoaded =>
        stats.streak =
            IF Today \in SessionDates THEN ConsecutiveDaysFrom(Today)
            ELSE IF (Today - 1) \in SessionDates THEN ConsecutiveDaysFrom(Today - 1)
            ELSE 0

\* C8: whenever it is computed the trend has 14 entries and the heat map 30,
\* one for each calendar day of the window that ends today, in order; a day
\* without sessions has value 0 and a day of the heat map has the sum of the
\* minutes of its sessions.
C8_SeriesOnePerDay ==
    AnalyticsLoaded =>
        /\ Len(weeklyData) = TrendDays
        /\ \A k \in 1..Len(weeklyData) :
              /\ weeklyData[k].date = Today - (TrendDays - k)
              /\ SumOn(storedSessions, weeklyData[k].date) = 0 => weeklyData[k].hours = 0
        /\ Len(heatmapData) = HeatmapDays
        /\ \A k \in 1..Len(heatmapData) :
              /\ heatmapData[k].date = Today - (HeatmapDays - k)
              /\ heatmapData[k].mins = SumOn(storedSessions, heatmapData[k].date)

----------------------------------------------------------------------------
(* The forms, with the values their inputs accept *)

\* Planner: hours has min 0, the title may be left empty
PlannerTitles == {"", "Ohm's Law"}
PlannerHours == {0, 1}

\* SessionTracker manual form (parseFloat of the field) and the Edit
\* Duration dialog (Number of the field, read by a button outside any form)
ManualInputs == {0, 58}
EditInputs == {0 - 5, 58}

NextForms ==
    \/ signIn
    \/ \E i \in 1..MaxRefreshes : RefreshGoals(i)
    \/ \E i \in 1..MaxRefreshes : RefreshSessions(i)
    \/ \E i \in 1..MaxRefreshes : RefreshConfidence(i)
    \/ \E i \in 1..MaxRefreshes : RefreshDone(i)
    \/ \E v \in {"dashboard", "planner"} : setView(v)
    \/ fetchGoalsAnswered
    \/ \E t \in PlannerTitles, sb \in FormSubjects, h \in PlannerHours, m \in FormMinutes,
          p \in FormPriorities : handleAddGoal(t, sb, h, m, p)
    \/ \E k \in 1..MaxGoals, t \in PlannerTitles, sb \in FormSubjects, h \in PlannerHours,
          m \in FormMinutes, p \in FormPriorities : handleUpdate(k, t, sb, h, m, p)
    \/ \E k \in 1..MaxGoals : handleGoalSelect(k)
    \/ \E d \in ManualInputs : handleManualSubmit(d)
    \/ \E k \in 1..RecentCount, d \in EditInputs : handleSaveEdit(k, d)

SpecForms == Init /\ [][NextForms]_vars

\* C11: every stored goal has a target above 0 and a title; the Planner
\* rejects a goal of 0 hours 0 minutes or with an empty title, on creation
\* and on edit.
C11_TargetPositive ==
    \A g \in Range(storedGoals) : g.targetMinutes > 0 /\ g.title # ""

\* C12: every stored session has a duration of 0 or more, whatever was
\* stopped, submitted, edited or deleted, and a session that a submission
\* creates has a duration above 0.
C12_DurationNonNegative ==
    /\ [](\A x \in Range(storedSessions) : x.durationMinutes >= 0)
    /\ [][Len(storedSessions') = Len(storedSessions) + 1 =>
             storedSessions'[Len(storedSessions')].durationMinutes > 0]_vars

----------------------------------------------------------------------------
(* The date of a goal *)

\* C13: the date of a stored goal never changes: a step that keeps the number
\* of goals keeps every date, a deletion leaves the other goals as they
\* were, and addGoal appends a goal dated with the day of the call.
C13_DateImmutable ==
    [][/\ Len(storedGoals') = Len(storedGoals) =>
              \A i \in 1..Len(storedGoals) : storedGoals'[i].date = storedGoals[i].date
       /\ Len(storedGoals') < Len(storedGoals) =>
              \A j \in 1..Len(storedGoals') : storedGoals'[j] \in Range(storedGoals)
       /\ (Len(storedGoals') > Len(storedGoals) /\ storeExists' = storeExists) =>
              /\ Len(storedGoals') = Len(storedGoals) + 1
              /\ SubSeq(storedGoals', 1, Len(storedGoals)) = storedGoals
              /\ storedGoals'[Len(storedGoals')].date = Today]_vars

\* a goal of an earlier day that the Planner has edited and the Dashboard
\* has marked complete still carries its day
C13_Witness ==
    \E g \in Range(storedGoals) :
        g.date < Today /\ g.title \in FormTitles /\ g.completed /\ g.completedAt = <<Today>>

----------------------------------------------------------------------------
(* Calls to the remote store that fail *)

\* one of the awaited calls of fetchDashboardData rejects: the function has
\* no try, so it ends there and what it has set so far stays
RefreshRejected(i) ==
    /\ isFirebaseConfigured
    /\ i \in 1..Len(refreshes)
    /\ refreshes' = RemoveAt(refreshes, i)
    /\ UNCHANGED <<isFirebaseConfigured, currentUser, now, storeVars, pendingToggles, view,
                   headerStats, dashVars, selectedGoal, timerVars, plannerGoals, plannerFetch,
                   ops,
                   analyticsVars>>

NextFailures ==
    \/ Next
    \/ \E i \in 1..MaxRefreshes : RefreshRejected(i)

SpecFailures == Init /\ [][NextFailures]_vars

\* C14: a call of the store that fails leaves the Dashboard as it was before
\* the action that made the call: the goals and statistics shown stay, and
\* the page is not left behind the loading screen once no call is in flight.
C14_FailureKeepsView ==
    /\ [][\A i \in 1..Len(refreshes) :
             RefreshRejected(i) => (goals' = goals /\ todayStats' = todayStats)]_vars
    /\ []((currentUser /\ view = "dashboard" /\ refreshes = <<>>) => ~loading)

----------------------------------------------------------------------------
(* The aggregation as a function of its inputs *)

\* the instants of the current date
InstantsOfToday == ParseDate(Today)..(ParseDate(Today) + HoursPerDay - 1)

\* C15: the statistics of Analytics are a function of the stored sessions,
\* the confidence entries and the current date: computed at any instant of
\* the same date over the same store they are the ones shown.
C15_AggregationPure ==
    AnalyticsLoaded =>
        \A t \in InstantsOfToday :
            LET sessions == getSessions(storedSessions)
            IN  /\ weeklyData = trendChartData(sessions, t)
                /\ heatmapData = heatmapArr(sessions, t)
                /\ stats.streak = currentStreak(sessions, t)
                /\ subjectData = pieData(sessions)
                /\ dailyLog = logArr(sessions)
                /\ stats.avgConfidence = avgConf(getConfidence(storedConfidence))

----------------------------------------------------------------------------
(* A long history of sessions, in either store *)

\* numbers of stored sessions: a few, with each order of subjects and each
\* history of confidence, and a full page and one more than a page
HistorySizes == {0, 1, 2, 3, PageLimit, PageLimit + 1}

\* the subjects of the sessions of a history, repeated in this order
HistorySubjects == {<<"Science">>, <<"Science", "Maths">>}

\* n sessions saved one an hour up to the present, oldest first, as addSession
\* stores them
SessionHistory(n, subjects) ==
    [k \in 1..n |->
        LET end == now - (n - k)
        IN  [id |-> IF isFirebaseConfigured THEN <<"doc", k>> ELSE <<"s_", end>>,
             date |-> UTCDate(end),
             subject |-> subjects[1 + (k % Len(subjects))],
             topic |-> "Ohm's Law", endTime |-> end, durationMinutes |-> Minutes(45)]]

InitHistory ==
    /\ InitViews
    /\ isFirebaseConfigured \in BOOLEAN
    /\ tz = UTC
    /\ now = 0
    /\ \E n \in HistorySizes :
       \E subjects \in IF n < PageLimit THEN HistorySubjects ELSE {<<"Science", "Maths">>} :
          /\ storedSessions = SessionHistory(n, subjects)
          /\ nextDocId = IF isFirebaseConfigured THEN n + 1 ELSE 1
          /\ \E scores \in IF n < PageLimit THEN {<<>>, <<75>>, <<75, 80>>} ELSE {<<75>>} :
                storedConfidence =
                    [k \in 1..Len(scores) |->
                        [date |-> UTCDate(now) - Len(scores) + k, score |-> scores[k]]]
    /\ currentUser = TRUE
    /\ storedGoals = <<>>
    /\ storeExists = TRUE
    /\ view = "planner"

SpecHistory == InitHistory /\ [][NextAnalytics]_vars

\* C16: in either store the unfiltered getSessions returns the stored
\* sessions newest end time first, no more of them than the page size (the
\* newest ones when there are more), and the call with a date returns exactly
\* the sessions of that date.
C16_SameSessions ==
    LET returned == getSessions(storedSessions)
        left == Range(storedSessions) \ Range(returned)
    IN  /\ Len(returned) = IF Len(storedSessions) < PageLimit THEN Len(storedSessions)
                           ELSE PageLimit
        /\ Range(returned) \subseteq Range(storedSessions)
        /\ \A i \in 1..(Len(returned) - 1) : returned[i].endTime >= returned[i + 1].endTime
        /\ \A x \in left, y \in Range(returned) : x.endTime <= y.endTime
        /\ \A date \in {x.date : x \in Range(storedSessions)} :
              LET onDate == getSessionsOn(storedSessions, date)
              IN  /\ Range(onDate) = {x \in Range(storedSessions) : x.date = date}
                  /\ Len(onDate) = Cardinality(Range(onDate))

----------------------------------------------------------------------------
(* Identifiers *)

DistinctIds(all) == \A i, j \in 1..Len(all) : all[i].id = all[j].id => i = j

\* C17: in the mock store no two stored goals have the same id and no two
\* stored sessions have the same id, at whatever readings of the clock the
\* records were added.
C17_UniqueIds ==
    ~isFirebaseConfigured => (DistinctIds(storedGoals) /\ DistinctIds(storedSessions))

----------------------------------------------------------------------------
(* On pace *)

\* goal.actualHours >= goal.targetHours, the test of the green progress text
\* and bar; actualHours is in tenths of an hour, the target in minutes
onPace(goal) == goal.actualHours * MinutesPerHour >= 10 * goal.targetMinutes

\* C18: a goal is shown as on pace exactly when the minutes of its matching
\* sessions, at full precision, are at least its target.
C18_OnPaceFullPrecision ==
    [][\A i \in 1..Len(refreshes) :
          RefreshSessions(i) =>
              \A k \in 1..Len(goals') :
                  onPace(goals'[k]) <=>
                      goalSpecificMinutes(goals'[k], getSessions(storedSessions),
                                          refreshes[i].today)
                          >= Minutes(goals'[k].targetMinutes)]_vars

----------------------------------------------------------------------------
(* Attribution of sessions to goals *)

\* the places in a list of goals of those a session is attributed to
MatchingGoals(gs, x) ==
    {i \in 1..Len(gs) : gs[i].subject = x.subject /\ gs[i].title = x.topic}

\* C19: each stored session dated today matches no goal or exactly one goal
\* of today's view by subject and topic = title.
C19_AtMostOneMatch ==
    \A x \in Range(storedSessions) :
        x.date = Today => Cardinality(MatchingGoals(getGoals(storedGoals, Today), x)) <= 1


\* the minutes of the stored sessions of a date with this subject and topic
MatchingMinutes(subject, title, date) ==
    SumSeq(Durations(SelectSeq(storedSessions,
               LAMBDA x : x.date = date /\ x.subject = subject /\ x.topic = title)))

\* C20: every goal of today's view is given the whole sum of the minutes of
\* today's sessions that match its subject and title, so two goals with the
\* same subject and title get the same actualHours.
C20_DuplicatesCountedTwice ==
    [][\A i \in 1..Len(refreshes) :
          RefreshSessions(i) =>
              \A g \in Range(refreshes[i].fetchedGoals) :
                  \A k \in 1..Len(goals') :
                      (goals'[k].subject = g.subject /\ goals'[k].title = g.title) =>
                          goals'[k].actualHours =
                              ToFixed1(MatchingMinutes(g.subject, g.title,
                                                       refreshes[i].today))]_vars

\* two goals shown with the same subject and title and the same hours done,
\* which together are more than all the minutes studied today
C20_Witness ==
    /\ DashboardSettled
    /\ \E k, l \in 1..Len(goals) :
          /\ k # l
          /\ goals[k].subject = goals[l].subject
          /\ goals[k].title = goals[l].title
          /\ goals[k].actualHours = goals[l].actualHours
          /\ goals[k].actualHours > 0
          /\ (goals[k].actualHours + goals[l].actualHours) * Minutes(MinutesPerHour)
                 > 10 * todayStats.totalMinutesStudied

----------------------------------------------------------------------------
(* Sessions of several subjects, short ones among them *)

MaxStored == 2     \* sessions in the store of SpecSubjects

\* what the tracker can have saved: a session of a subject of the Planner,
\* of 2 or of 45 minutes (the manual form takes every duration above 0),
\* yesterday or today
SavedSubjects == {"Science", "Maths"}
SavedMinutes == {2, 45}
SavedDates == {Today - 1, Today}

SavedSession == [subject : SavedSubjects, minutes : SavedMinutes, date : SavedDates]

\* the stores of up to MaxStored sessions, oldest first
SavedStores ==
    {entries \in UNION {[1..n -> SavedSession] : n \in 0..MaxStored} :
        \A k \in 1..(Len(entries) - 1) : entries[k].date <= entries[k + 1].date}

SessionsSaved(entries) ==
    [k \in 1..Len(entries) |->
        LET end == ParseDate(entries[k].date) + k
        IN  [id |-> IF isFirebaseConfigured THEN <<"doc", k>> ELSE <<"s_", end>>,
             date |-> entries[k].date, subject |-> entries[k].subject,
             topic |-> "Ohm's Law", endTime |-> end,
             durationMinutes |-> Minutes(entries[k].minutes)]]

InitSubjects ==
    /\ InitViews
    /\ isFirebaseConfigured \in BOOLEAN
    /\ tz = UTC
    /\ now = HoursPerDay - 1
    /\ \E entries \in SavedStores :
          /\ storedSessions = SessionsSaved(entries)
          /\ nextDocId = IF isFirebaseConfigured THEN Len(entries) + 1 ELSE 1
    /\ storedConfidence = <<>>
    /\ currentUser = TRUE
    /\ storedGoals = <<>>
    /\ storeExists = TRUE
    /\ view = "planner"

NextSubjects ==
    \/ \E v \in {"dashboard", "analytics"} : setView(v)
    \/ \E i \in 1..MaxRefreshes : RefreshGoals(i)
    \/ \E i \in 1..MaxRefreshes : RefreshSessions(i)
    \/ \E i \in 1..MaxRefreshes : RefreshConfidence(i)
    \/ \E i \in 1..MaxRefreshes : RefreshDone(i)
    \/ fetchDataSessions
    \/ fetchDataConfidence

SpecSubjects == InitSubjects /\ [][NextSubjects]_vars

\* the subjects of the sessions of a window, and the minutes of one of them
SubjectsIn(window) == {x.subject : x \in Range(window)}

SubjectMinutes(window, subject) ==
    SumSeq(Durations(SelectSeq(window, LAMBDA x : x.subject = subject)))

\* C21: the distribution of the Dashboard has exactly one pair for each
\* subject with sessions today, with the sum of their minutes, and that of
\* Analytics one for each subject with sessions at all, with their hours; no
\* pair of either has the value 0.
C21_OnePairPerSubject ==
    /\ DashboardSettled =>
          LET window == todaysSessions(storedSessions, Today)
          IN  /\ {p.name : p \in Range(subjectDistribution)} = SubjectsIn(window)
              /\ Len(subjectDistribution) = Cardinality(SubjectsIn(window))
              /\ \A p \in Range(subjectDistribution) :
                    p.value = SubjectMinutes(window, p.name) /\ p.value # 0
    /\ AnalyticsLoaded =>
          /\ {p.name : p \in Range(subjectData)} = SubjectsIn(storedSessions)
          /\ Len(subjectData) = Cardinality(SubjectsIn(storedSessions))
          /\ \A p \in Range(subjectData) :
                p.value = ToFixed1(SubjectMinutes(storedSessions, p.name)) /\ p.value # 0

----------------------------------------------------------------------------
(* Best day *)

\* the day of the week of a calendar date, 0 = Sunday
Weekday(date) == (date + EpochWeekday) % DaysPerWeek

WeekdayMinutes(day) ==
    SumSeq(Durations(SelectSeq(storedSessions, LAMBDA x : Weekday(x.date) = day)))

\* C22: the best day is the day of the week with the largest sum of the
\* minutes of all sessions dated on it, the lowest such day when several
\* have the largest sum.
C22_BestDayLargest ==
    AnalyticsLoaded =>
        \E best \in 0..(DaysPerWeek - 1) :
            /\ \A day \in 0..(DaysPerWeek - 1) : WeekdayMinutes(day) <= WeekdayMinutes(best)
            /\ \A day \in 0..(best - 1) : WeekdayMinutes(day) < WeekdayMinutes(best)
            /\ stats.bestDay = dayNames[best + 1]

----------------------------------------------------------------------------
(* A store with a goal that the app did not write *)

\* dates that are no ISO dates: the empty string, a date written the other
\* way round, a word
DateTexts ==
    {<<>>,
     <<"0", "1", "/", "1", "3", "/", "1", "9", "7", "0">>,
     <<"t", "o", "m", "o", "r", "r", "o", "w">>}

\* the fields of a goal other than its date
GoalWithoutDate(id, completed, completedAt) ==
    [id |-> id, title |-> "Ohm's Law", subject |-> "Science", targetMinutes |-> 60,
     completed |-> completed, priority |-> "High", completedAt |-> completedAt]

WithField(g, field, value) ==
    [f \in DOMAIN g \cup {field} |-> IF f = field THEN value ELSE g[f]]

\* the records a store can hold in place of a goal of the app
ForeignGoals(id) ==
    LET bare == {GoalWithoutDate(id, completed, completedAt) :
                    completed \in BOOLEAN, completedAt \in {Null, <<Today>>}}
    IN  bare \cup {WithField(g, "dateText", text) : g \in bare, text \in DateTexts}

InitFilter ==
    /\ InitViews
    /\ isFirebaseConfigured \in BOOLEAN
    /\ tz = UTC
    /\ now = 0
    /\ \E own \in {TRUE, FALSE} :
       \E foreign \in ForeignGoals(IF isFirebaseConfigured THEN <<"doc", 2>> ELSE <<"g_", now>>) :
          storedGoals =
              (IF own
               THEN <<WithField(GoalWithoutDate(IF isFirebaseConfigured THEN <<"doc", 1>>
                                                ELSE <<"g_", now - 1>>, FALSE, Null),
                                "date", Today - 1)>>
               ELSE <<>>) \o <<foreign>>
    /\ nextDocId = IF isFirebaseConfigured THEN 3 ELSE 1
    /\ storedSessions = <<>>
    /\ storedConfidence = <<>>
    /\ currentUser = TRUE
    /\ storeExists = TRUE
    /\ view = "analytics"

NextFilter ==
    \/ Tick
    \/ \E v \in {"dashboard", "planner"} : setView(v)
    \/ \E i \in 1..MaxRefreshes : RefreshGoals(i)
    \/ \E i \in 1..MaxRefreshes : RefreshSessions(i)
    \/ \E i \in 1..MaxRefreshes : RefreshConfidence(i)
    \/ \E i \in 1..MaxRefreshes : RefreshDone(i)
    \/ fetchGoalsAnswered

SpecFilter == InitFilter /\ [][NextFilter]_vars

HasISODate(g) == "date" \in DOMAIN g

\* C23: a stored goal whose date is missing or is no ISO date is returned by
\* getGoals for no reference date, whether it is completed or not, and is
\* shown by neither the Dashboard nor the Planner.
C23_FilterTotal ==
    /\ \A date \in RefDates :
          LET returned == getGoals(storedGoals, date)
          IN  \A k \in 1..Len(returned) : HasISODate(returned[k])
    /\ \A k \in 1..Len(goals) : HasISODate(goals[k])
    /\ \A k \in 1..Len(plannerGoals) : HasISODate(plannerGoals[k])

----------------------------------------------------------------------------
(* The Dashboard with the stopwatch *)

NextTracker ==
    \/ Tick
    \/ signIn
    \/ \E i \in 1..MaxRefreshes : RefreshGoals(i)
    \/ \E i \in 1..MaxRefreshes : RefreshSessions(i)
    \/ \E i \in 1..MaxRefreshes : RefreshConfidence(i)
    \/ \E i \in 1..MaxRefreshes : RefreshDone(i)
    \/ \E k \in 1..MaxGoals : toggleGoalCompletion(k)
    \/ toggleGoalAnswered
    \/ \E k \in 1..MaxGoals : handleGoalSelect(k)
    \/ \E d \in ManualDurations : handleManualSubmit(d)
    \/ startTimer
    \/ timerInterval
    \/ stopTimer
    \/ \E i \in 1..MaxStopTimers : stopTimerAnswered(i)
    \/ \E i \in 1..MaxStopTimers : stopTimerRejected(i)

\* Nobody is signed in.  The mock store is empty and is seeded at sign-in; the
\* remote store holds a goal that the user added in the Planner before.
InitTracker ==
    /\ InitViews
    /\ isFirebaseConfigured \in BOOLEAN
    /\ currentUser = FALSE
    /\ now = 0
    /\ tz = UTC
    /\ storedGoals =
          IF isFirebaseConfigured
          THEN <<[id |-> <<"doc", 0>>, date |-> Today, title |-> "Ohm's Law",
                  subject |-> "Science", targetMinutes |-> 60, completed |-> FALSE,
                  priority |-> "High", completedAt |-> Null]>>
          ELSE <<>>
    /\ storedSessions = <<>>
    /\ storedConfidence = <<>>
    /\ storeExists = FALSE
    /\ nextDocId = 1
    /\ view = "dashboard"

SpecTracker == InitTracker /\ [][NextTracker]_vars

\* C24: whenever the stopwatch runs a start instant is recorded, so that a
\* click on Stop takes effect.
C24_RunningHasStart == isRunning => startTimeRef # Null

----------------------------------------------------------------------------
(* The Dashboard after its refreshes *)

\* the goals of a list as the page tells them apart: id and completion
Shown(gs) == {<<gs[k].id, gs[k].completed>> : k \in 1..Len(gs)}

\* what the Dashboard and the header badge show is what getGoals returns
\* from the store for this date
ShowsGoalsOf(date) ==
    LET returned == getGoals(storedGoals, date)
        counts == [total |-> Len(returned), completed |-> completedCount(returned)]
    IN  /\ Len(goals) = Len(returned)
        /\ Shown(goals) = Shown(returned)
        /\ todayStats.totalGoals = counts.total
        /\ todayStats.completedGoals = counts.completed
        /\ headerStats = counts

\* C25: when every refresh has completed and no update is on its way, the
\* goal list, the counts and the header badge of the Dashboard are those of
\* getGoals over the current store, for today or, when midnight has passed
\* since, for the day the page was refreshed.
C25_SettledViewCurrent ==
    DashboardSettled => \E date \in 0..Today : ShowsGoalsOf(date)

----------------------------------------------------------------------------
(* The goal of a saved session *)

\* an incomplete goal of today's view has this subject and title
PendingGoal(subject, title) ==
    \E g \in Range(getGoals(storedGoals, Today)) :
        g.subject = subject /\ g.title = title /\ ~g.completed

\* C26: a session that the SessionTracker saves, from the manual form or
\* from the stopwatch, has the subject and the title of a goal that is in
\* today's view and incomplete at the moment of the click that saves it.
C26_SavedForPendingGoal ==
    [][/\ ((\E d \in ManualDurations : handleManualSubmit(d))
             \/ (stopTimer /\ storedSessions' # storedSessions)) =>
              PendingGoal(storedSessions'[Len(storedSessions')].subject,
                          storedSessions'[Len(storedSessions')].topic)
       /\ (stopTimer /\ stopTimers' # stopTimers) =>
              PendingGoal(stopTimers'[Len(stopTimers')].session.subject,
                          stopTimers'[Len(stopTimers')].session.topic)]_vars

\* C27: when a score is stored for today, for every score from 0 to 100,
\* and the Dashboard has settled with Edit not pressed, the "Today's
\* Confidence" card is shown with that score, the check-in prompt is hidden,
\* and the trend carries the score as today's confidence value.
C27_LoggedScoreShown ==
    (/\ DashboardSettled
     /\ getConfidenceOn(storedConfidence, Today) # Null
     /\ ~isEditingConfidence) =>
        /\ ConfidenceCardShown
        /\ confidence = getConfidenceOn(storedConfidence, Today)
        /\ ~CheckInShown
        /\ trendConfidence(getConfidenceHistory(storedConfidence), Today)
              = getConfidenceOn(storedConfidence, Today)

\* the stop has left the stopwatch not running, the counter at 0 and the
\* selected goal as it was
StopwatchEnded == ~isRunning' /\ seconds' = 0 /\ selectedGoal' = selectedGoal

\* exactly one session is added, for the stop at instant end after elapsed
\* seconds: durationMinutes is in sixtieths of a minute, that is elapsed / 60
OneSessionSaved(elapsed, end) ==
    /\ Len(storedSessions') = Len(storedSessions) + 1
    /\ SubSeq(storedSessions', 1, Len(storedSessions)) = storedSessions
    /\ storedSessions'[Len(storedSessions')].durationMinutes = elapsed
    /\ storedSessions'[Len(storedSessions')].date = UTCDate(end)

\* C28: stopping a running stopwatch after 5 seconds or more creates exactly
\* one session, of elapsed seconds / 60 minutes and dated the day of the
\* stop, and after less than 5 seconds creates none; either way the stopwatch
\* ends not running, the counter at 0 and the goal selection kept.  The
\* stopwatch is not started without a selected goal.
C28_StopSavesOnce ==
    [][/\ (stopTimer /\ elapsedSeconds < MinSavedSeconds) =>
              /\ storedSessions' = storedSessions
              /\ stopTimers' = stopTimers
              /\ StopwatchEnded
       /\ (stopTimer /\ elapsedSeconds >= MinSavedSeconds /\ ~isFirebaseConfigured) =>
              /\ OneSessionSaved(elapsedSeconds, now)
              /\ StopwatchEnded
       /\ (stopTimer /\ stopTimers' # stopTimers) =>
              stopTimers'[Len(stopTimers')].session.durationMinutes = elapsedSeconds
       /\ \A i \in 1..Len(stopTimers) :
              stopTimerAnswered(i) =>
                  /\ OneSessionSaved(stopTimers[i].session.durationMinutes,
                                     stopTimers[i].session.endTime)
                  /\ StopwatchEnded
       /\ startTimer => selectedGoal # Null]_vars

----------------------------------------------------------------------------
(* The Dashboard over goals of every priority, in the mock store *)

MaxListed == 3     \* goals of today in the store of SpecSort

\* a goal of today as the Planner's form and the circle of the Dashboard
\* leave it
ListedGoal(id, priority, completed) ==
    [id |-> id, date |-> Today, title |-> "Ohm's Law", subject |-> "Science",
     targetMinutes |-> 60, completed |-> completed, priority |-> priority,
     completedAt |-> IF completed THEN <<Today>> ELSE Null]

ListedStores ==
    UNION {[1..n -> Priority \X BOOLEAN] : n \in 0..MaxListed}

InitSort ==
    /\ InitViews
    /\ isFirebaseConfigured = FALSE
    /\ tz = UTC
    /\ now = 0
    /\ \E listed \in ListedStores :
          storedGoals =
              [k \in 1..Len(listed) |->
                  ListedGoal(<<"g_", now - k>>, listed[k][1], listed[k][2])]
    /\ nextDocId = 1
    /\ storedSessions = <<>>
    /\ storedConfidence = <<>>
    /\ currentUser = TRUE
    /\ storeExists = TRUE
    /\ view = "analytics"

NextSort ==
    \/ \E v \in {"dashboard", "analytics"} : setView(v)
    \/ \E i \in 1..MaxRefreshes : RefreshGoals(i)
    \/ \E i \in 1..MaxRefreshes : RefreshSessions(i)
    \/ \E i \in 1..MaxRefreshes : RefreshConfidence(i)
    \/ \E i \in 1..MaxRefreshes : RefreshDone(i)
    \/ \E k \in 1..MaxListed : toggleGoalCompletion(k)
    \/ fetchDataSessions
    \/ fetchDataConfidence

SpecSort == InitSort /\ [][NextSort]_vars

\* the goals of the list without the actualHours the Dashboard adds
Fetched(gs) == [k \in 1..Len(gs) |-> [f \in DOMAIN gs[k] \ {"actualHours"} |-> gs[k][f]]]

\* gs holds the elements of hs, each as often as hs does
PermutationOf(gs, hs) ==
    /\ Len(gs) = Len(hs)
    /\ \A x \in Range(gs) \cup Range(hs) :
          Cardinality({k \in 1..Len(gs) : gs[k] = x})
              = Cardinality({k \in 1..Len(hs) : hs[k] = x})

\* the order of the list: incomplete before completed, and within one
\* completion state never a lower priority before a higher one
ListOrdered(gs) ==
    \A j, k \in 1..Len(gs) :
        j < k =>
            /\ gs[j].completed => gs[k].completed
            /\ gs[j].completed = gs[k].completed =>
                  pMap(gs[j].priority) >= pMap(gs[k].priority)

----------------------------------------------------------------------------
(* The frame of the goal operations *)

\* the goals of a list that do not have the id, in their order
OtherGoals(all, goalId) == SelectSeq(all, LAMBDA g : g.id # goalId)

\* an update or a toggle of the goal with the id has left every other goal
\* where it was and as it was
OthersInPlace(before, after, goalId) ==
    /\ Len(after) = Len(before)
    /\ \A k \in 1..Len(before) : before[k].id # goalId => after[k] = before[k]

\* a deletion of the goal with the id has left every other goal as it was,
\* in the order they had
OthersInOrder(before, after, goalId) ==
    /\ OtherGoals(after, goalId) = OtherGoals(before, goalId)
    /\ Range(after) \subseteq Range(before)

\* the ids of the stored goals and one that no stored goal has
GoalIds == {g.id : g \in Range(storedGoals)} \cup {<<"g_", -1>>}

FormUpdates ==
    {[title |-> t, subject |-> sb, targetMinutes |-> h * MinutesPerHour + m, priority |-> p] :
        t \in FormTitles, sb \in FormSubjects, h \in FormHours, m \in FormMinutes,
        p \in Priority}

====
